---------------------------- MODULE Spec2Model ----------------------------
(***************************************************************************)
(* Model of the two gas-dynamics notebooks: the area-Mach / table          *)
(* interpolation notebook and the reflected oblique shock notebook.        *)
(*                                                                         *)
(* A notebook is a kernel namespace plus a list of code cells that are run *)
(* once each, top to bottom.  Python floats are modelled as decimal        *)
(* fixed-point numbers with 16 fractional digits (resolution 1e-16), held  *)
(* as a sign and a magnitude of base-10^4 limbs, least significant first;  *)
(* every arithmetic operation truncates its exact result toward zero to    *)
(* that resolution.                                                        *)
(***************************************************************************)
EXTENDS Integers, Sequences, FiniteSets, TLC

(***************************************************************************)
(* The kernel: a namespace of bound names, the outputs shown so far, the   *)
(* exception that stopped the run, and a log of the library calls made.    *)
(***************************************************************************)
VARIABLES
    nb,     \* the notebook being run: "area" or "oblique"
    pc,     \* the code cell being run, or to run next, counted from 1
    ns,     \* the kernel's global namespace: bound name -> value
    out,    \* the outputs the run has produced, in order
    err,    \* "none", or the exception at which the run stopped
    calls,  \* the calls of root_scalar and np.interp that have returned
    call    \* the call of root_scalar the cell is in, or NoCall

vars == <<nb, pc, ns, out, err, calls, call>>

(***************************************************************************)
(* The longer operations are applied through the one recursive operator    *)
(* Do, defined after the last of them: Name(x, y) stands for the           *)
(* application of NameBody to x and y.  Do takes the name and up to five   *)
(* arguments; an operation of fewer arguments is passed 0 for the rest.    *)
(***************************************************************************)
RECURSIVE Do(_, _, _, _, _, _)

(***************************************************************************)
(* Natural numbers of arbitrary size: sequences of limbs, least            *)
(* significant first, no zero limb at the top; <<>> is zero.               *)
(***************************************************************************)
Base == 10 ^ 4

Limb(s, i) == IF i \in 1..Len(s) THEN s[i] ELSE 0

MaxOf(x, y) == IF x >= y THEN x ELSE y

MinOf(x, y) == IF x <= y THEN x ELSE y

\* the largest element of a non-empty finite set of integers
SetMax(S) == CHOOSE i \in S : \A j \in S : j <= i

\* s without the zero limbs at its top
Strip(s) ==
    LET nz == {i \in 1..Len(s) : s[i] # 0}
    IN  IF nz = {} THEN <<>> ELSE SubSeq(s, 1, SetMax(nz))

Zeros(n) == [i \in 1..n |-> 0]

RECURSIVE NFromInt(_)
NFromInt(n) == IF n = 0 THEN <<>> ELSE <<n % Base>> \o NFromInt(n \div Base)

\* -1, 0, 1 as a < b, a = b, a > b
NCmp(a, b) ==
    IF Len(a) # Len(b) THEN (IF Len(a) > Len(b) THEN 1 ELSE -1)
    ELSE LET d == {i \in 1..Len(a) : a[i] # b[i]}
         IN  IF d = {} THEN 0
             ELSE IF a[SetMax(d)] > b[SetMax(d)] THEN 1 ELSE -1

\* the carry into limb i of the limb-wise sums s, each in 0..2*Base-2: the
\* nearest limb below i that does not pass a carry on decides it
CarryInto(s, i) ==
    LET low == {j \in 1..(i - 1) : Limb(s, j) # Base - 1}
    IN  IF low # {} /\ s[SetMax(low)] >= Base THEN 1 ELSE 0

NAdd(a, b) ==
    IF a = <<>> THEN b
    ELSE IF b = <<>> THEN a
    ELSE LET s == [i \in 1..MaxOf(Len(a), Len(b)) |-> Limb(a, i) + Limb(b, i)]
         IN  Strip([i \in 1..(Len(s) + 1) |->
                       (Limb(s, i) + CarryInto(s, i)) % Base])

\* the borrow from limb i of the limb-wise differences d
BorrowFrom(d, i) ==
    LET low == {j \in 1..(i - 1) : d[j] # 0}
    IN  IF low # {} /\ d[SetMax(low)] < 0 THEN 1 ELSE 0

\* a - b for a >= b
NSub(a, b) ==
    IF a = <<>> \/ b = <<>> THEN a
    ELSE LET d == [i \in 1..Len(a) |-> a[i] - Limb(b, i)]
         IN  Strip([i \in 1..Len(a) |->
                       (d[i] - BorrowFrom(d, i) + Base) % Base])

\* a * k for 0 <= k < Base
NMulSmall(a, k) ==
    IF a = <<>> \/ k = 0 THEN <<>>
    ELSE NAdd([i \in 1..Len(a) |-> (a[i] * k) % Base],
              <<0>> \o [i \in 1..Len(a) |-> (a[i] * k) \div Base])

\* the sum of a[i] * b[k + 1 - i] over the i from i up with both limbs present
RECURSIVE NColumn(_, _, _, _)
NColumn(a, b, k, i) ==
    IF i > Len(a) \/ i > k THEN 0
    ELSE a[i] * Limb(b, k + 1 - i) + NColumn(a, b, k, i + 1)

\* the columns of the product are split in three limbs each and added up
NMul(a, b) == Do("NMul", a, b, 0, 0, 0)

NMulBody(a, b) ==
    IF a = <<>> \/ b = <<>> THEN <<>>
    ELSE LET col == [k \in 1..(Len(a) + Len(b) - 1) |->
                        NColumn(a, b, k, MaxOf(1, k + 1 - Len(b)))]
         IN  NAdd(NAdd([k \in DOMAIN col |-> col[k] % Base],
                       <<0>> \o [k \in DOMAIN col |-> (col[k] \div Base) % Base]),
                  <<0, 0>> \o [k \in DOMAIN col |-> col[k] \div (Base * Base)])

\* the largest q <= guess with b * q <= r
RECURSIVE NQFix(_, _, _)
NQFix(r, b, q) == IF NCmp(NMulSmall(b, q), r) > 0 THEN NQFix(r, b, q - 1) ELSE q

\* one quotient limb: floor(r / b) for r < b * Base, top limb of b >= Base / 2
NQLimb(r, b) ==
    LET n == Len(b)
    IN  NQFix(r, b, MinOf(Base - 1,
                          (Limb(r, n + 1) * Base + Limb(r, n)) \div b[n]))

\* long division, limb i of a brought down next: d.r the remainder so far,
\* d.q the quotient limbs found, least significant first
NDivStep(a, b, d) ==
    LET r1 == Strip(<<a[d.i]>> \o d.r)
        q  == NQLimb(r1, b)
    IN  [i |-> d.i - 1, r |-> NSub(r1, NMulSmall(b, q)), q |-> <<q>> \o d.q]

RECURSIVE NDivFrom(_, _, _)
NDivFrom(a, b, d) == IF d.i = 0 THEN d.q ELSE NDivFrom(a, b, NDivStep(a, b, d))

\* floor(a / b) for b > 0: both are scaled to bring the top limb of b to at
\* least Base / 2, and the limbs of a above the length of b start the remainder
NDiv(a, b) == Do("NDiv", a, b, 0, 0, 0)

NDivBody(a, b) ==
    IF NCmp(a, b) < 0 THEN <<>>
    ELSE LET f  == Base \div (b[Len(b)] + 1)
             a1 == NMulSmall(a, f)
             b1 == NMulSmall(b, f)
             i0 == Len(a1) - Len(b1) + 1
         IN  Strip(NDivFrom(a1, b1, [i |-> i0, q |-> <<>>,
                                     r |-> SubSeq(a1, i0 + 1, Len(a1))]))

\* floor(sqrt(n)) of a machine integer below 10^8, by Newton's iteration
\* from an estimate that is not below it
RECURSIVE IsqrtFrom(_, _)
IsqrtFrom(n, y) ==
    IF (y + n \div y) \div 2 < y THEN IsqrtFrom(n, (y + n \div y) \div 2) ELSE y

Isqrt(n) ==
    IF n < 2 THEN n
    ELSE IsqrtFrom(n, IF n < 10 ^ 2 THEN 10 ELSE IF n < 10 ^ 4 THEN 10 ^ 2
                      ELSE IF n < 10 ^ 6 THEN 10 ^ 3 ELSE 10 ^ 4)

RECURSIVE NSqrtFrom(_, _)
NSqrtFrom(n, y) ==
    IF NCmp(NDiv(NAdd(y, NDiv(n, y)), <<2>>), y) < 0
    THEN NSqrtFrom(n, NDiv(NAdd(y, NDiv(n, y)), <<2>>))
    ELSE y

\* floor(sqrt(n)); the first estimate, taken from the top two limbs, is not
\* below it
NSqrt(n) ==
    IF n = <<>> THEN <<>>
    ELSE IF Len(n) = 1 THEN NFromInt(Isqrt(n[1]))
    ELSE LET L   == Len(n)
             est == Isqrt(n[L] * Base + n[L - 1]) + 1
         IN  IF L % 2 = 0 THEN NSqrtFrom(n, Zeros((L - 2) \div 2) \o NFromInt(est))
             ELSE NSqrtFrom(n, Zeros((L - 3) \div 2) \o NFromInt(est * 100))

(***************************************************************************)
(* Python floats: [neg, mag] stands for (-1)^neg * mag / 10^16.  Zero is   *)
(* never negative.                                                         *)
(***************************************************************************)
Mk(neg, mag) == [neg |-> neg /\ mag # <<>>, mag |-> mag]

Zero == Mk(FALSE, <<>>)

\* n / 10^d for n # 0, 0 <= d <= 16 and n * 10^((16 - d) % 4) a machine integer
Dec(n, d) ==
    Mk(n < 0, Zeros((16 - d) \div 4)
              \o NFromInt((IF n < 0 THEN -n ELSE n) * 10 ^ ((16 - d) % 4)))

FromInt(n) == Dec(n, 0)

IsZero(x) == x.mag = <<>>

FNeg(x) == Mk(~x.neg, x.mag)

FAbs(x) == Mk(FALSE, x.mag)

\* -1, 0, 1 as x < y, x = y, x > y
FCmp(x, y) ==
    IF x.neg # y.neg THEN (IF x.neg THEN -1 ELSE 1)
    ELSE IF x.neg THEN NCmp(y.mag, x.mag)
    ELSE NCmp(x.mag, y.mag)

FLt(x, y) == FCmp(x, y) < 0

FLe(x, y) == FCmp(x, y) <= 0

FAdd(x, y) == Do("FAdd", x, y, 0, 0, 0)

FAddBody(x, y) ==
    IF IsZero(x) THEN y
    ELSE IF IsZero(y) THEN x
    ELSE IF x.neg = y.neg THEN Mk(x.neg, NAdd(x.mag, y.mag))
    ELSE IF NCmp(x.mag, y.mag) >= 0 THEN Mk(x.neg, NSub(x.mag, y.mag))
    ELSE Mk(y.neg, NSub(y.mag, x.mag))

FSub(x, y) == FAdd(x, FNeg(y))

\* the exact product, truncated toward zero to 16 fractional digits
FMul(x, y) == Do("FMul", x, y, 0, 0, 0)

FMulBody(x, y) ==
    IF IsZero(x) \/ IsZero(y) THEN Zero
    ELSE LET p == NMul(x.mag, y.mag)
         IN  Mk(x.neg # y.neg, SubSeq(p, 5, Len(p)))

\* the exact quotient, truncated toward zero to 16 fractional digits; y # 0
FDiv(x, y) == Do("FDiv", x, y, 0, 0, 0)

FDivBody(x, y) ==
    IF IsZero(x) THEN Zero
    ELSE Mk(x.neg # y.neg, NDiv(Zeros(4) \o x.mag, y.mag))

FMulInt(x, k) == IF IsZero(x) THEN Zero ELSE Mk(x.neg, NMulSmall(x.mag, k))

FDivInt(x, k) == IF IsZero(x) THEN Zero ELSE Mk(x.neg, NDiv(x.mag, NFromInt(k)))

\* x >= 0
FSqrt(x) == Do("FSqrt", x, 0, 0, 0, 0)

FSqrtBody(x) == IF IsZero(x) THEN Zero ELSE Mk(FALSE, NSqrt(Zeros(4) \o x.mag))

\* x ** n for a natural number n
FPowInt(x, n) == Do("FPowInt", x, n, 0, 0, 0)

FPowIntBody(x, n) == IF n = 0 THEN FromInt(1) ELSE FMul(FPowInt(x, n - 1), x)

\* x ** y for x > 0 and y >= 0 a multiple of 1/2, the exponents that
\* (gamma + 1) / (2 * (gamma - 1)) takes for the specific-heat ratios used
FPow(x, y) == Do("FPow", x, y, 0, 0, 0)

FPowBody(x, y) ==
    LET whole == Limb(y.mag, 5)
        frac  == SubSeq(y.mag, 1, MinOf(4, Len(y.mag)))
    IN  CASE Strip(frac) = <<>>           -> FPowInt(x, whole)
          [] frac = <<0, 0, 0, 5000>>     -> FMul(FPowInt(x, whole), FSqrt(x))

\* pi / 180 = 0.0174532925199433 to 16 fractional digits
PiOver180 == FAdd(Dec(1745329, 8), Dec(25199433, 16))

\* np.radians
Radians(deg) == FMul(deg, PiOver180)

\* the Taylor series of sine and cosine, summed until a term truncates to
\* zero: s.term is the next term, s.k the next factor of the factorial
RECURSIVE TrigSeries(_, _)
TrigSeries(x2, s) ==
    IF IsZero(s.term) THEN s.acc
    ELSE TrigSeries(x2, [term |-> FNeg(FDivInt(FMul(s.term, x2),
                                               s.k * (s.k + 1))),
                         k |-> s.k + 2, acc |-> FAdd(s.acc, s.term)])

\* np.sin, np.cos, np.tan for |x| <= pi / 2
Sin(x) == TrigSeries(FMul(x, x), [term |-> x, k |-> 2, acc |-> Zero])

Cos(x) == TrigSeries(FMul(x, x), [term |-> FromInt(1), k |-> 1, acc |-> Zero])

Tan(x) == FDiv(Sin(x), Cos(x))

\* t - t^3/3 + t^5/5 - ...: s.pow is the next power of t, signed, s.k its
\* exponent
RECURSIVE AtanSeries(_, _)
AtanSeries(t2, s) ==
    IF IsZero(FDivInt(s.pow, s.k)) THEN s.acc
    ELSE AtanSeries(t2, [pow |-> FNeg(FMul(s.pow, t2)), k |-> s.k + 2,
                         acc |-> FAdd(s.acc, FDivInt(s.pow, s.k))])

\* np.arctan: the argument is halved, arctan t = 2 arctan(t / (1 + sqrt(1 + t^2))),
\* until the series converges quickly
Arctan(t) == Do("Arctan", t, 0, 0, 0, 0)

ArctanBody(t) ==
    IF FLt(Dec(25, 2), FAbs(t))
    THEN FMulInt(Arctan(FDiv(t, FAdd(FromInt(1),
                                     FSqrt(FAdd(FromInt(1), FMul(t, t)))))), 2)
    ELSE AtanSeries(FMul(t, t), [pow |-> t, k |-> 1, acc |-> Zero])


(***************************************************************************)
(* The residual functions of the two notebooks.                            *)
(***************************************************************************)
One == FromInt(1)

Two == FromInt(2)

\* area-Mach notebook: residual of the area-Mach relation in M2
fA(M2, M1, A_ratio, gamma) ==
    LET h == FDiv(FSub(gamma, One), Two)
    IN  FSub(A_ratio,
             FMul(FDiv(M1, M2),
                  FPow(FDiv(FAdd(One, FMul(h, FPowInt(M2, 2))),
                            FAdd(One, FMul(h, FPowInt(M1, 2)))),
                       FDiv(FAdd(gamma, One), FMul(Two, FSub(gamma, One))))))

\* 2 * (1 / tan(theta)) * (M1**2 * sin(theta)**2 - 1)
\*                      / (M1**2 * (gamma + cos(2*theta)) + 2)
TanDeflection(theta, M1, gamma) ==
    FDiv(FMul(FMul(Two, FDiv(One, Tan(theta))),
              FSub(FMul(FPowInt(M1, 2), FPowInt(Sin(theta), 2)), One)),
         FAdd(FMul(FPowInt(M1, 2), FAdd(gamma, Cos(FMul(Two, theta)))), Two))

\* oblique-shock notebook: residual of the theta-delta-Mach relation in theta
oblique(theta, M1, delta, gamma) ==
    FSub(Tan(delta), TanDeflection(theta, M1, gamma))

\* a Python function object called with the unknown first and args after it
Call(f, x, args) == Do("Call", f, x, args, 0, 0)

CallBody(f, x, args) ==
    CASE f.def = "fA"      -> fA(x, args[1], args[2], args[3])
      [] f.def = "oblique" -> oblique(x, args[1], args[2], args[3])

(***************************************************************************)
(* scipy.optimize.root_scalar with a bracket and no method: Brent's method *)
(* (brentq) with its default tolerances, full_output = True, disp = False. *)
(***************************************************************************)
\* xtol taken for a tolerance on the unknown of half a unit
CoarseXtol == Dec(5, 1)

xtol == Dec(2, 12)

rtol == Dec(9, 16)

maxiter == 100

SameSign(x, y) == x.neg = y.neg

\* brentq before its loop: both ends of the bracket are evaluated; a zero
\* residual at an end is the root, one sign at both ends is the sign error
BrentStart(f, args, xa, xb) ==
    LET fa == Call(f, xa, args)
        fb == Call(f, xb, args)
    IN  [xpre |-> xa, xcur |-> IF IsZero(fa) THEN xa ELSE xb, xblk |-> Zero,
         fpre |-> fa, fcur |-> IF IsZero(fa) THEN fa ELSE fb, fblk |-> Zero,
         spre |-> Zero, scur |-> Zero,
         iterations |-> 0, funcalls |-> 2, points |-> <<xa, xb>>,
         flag |-> IF IsZero(fa) \/ IsZero(fb) THEN "converged"
                  ELSE IF SameSign(fa, fb) THEN "sign error"
                  ELSE "inprogress"]

\* the bracket is never re-established: xblk stays as initialised
BrentBracketKeep(s) == s

\* the bracket is re-established when the last step crossed the root
BrentBracket(s) ==
    IF ~IsZero(s.fpre) /\ ~IsZero(s.fcur) /\ ~SameSign(s.fpre, s.fcur)
    THEN [s EXCEPT !.xblk = s.xpre, !.fblk = s.fpre,
                   !.spre = FSub(s.xcur, s.xpre), !.scur = FSub(s.xcur, s.xpre)]
    ELSE s

\* xcur is kept the end of the bracket with the smaller residual
BrentSwap(s) ==
    IF FLt(FAbs(s.fblk), FAbs(s.fcur))
    THEN [s EXCEPT !.xpre = s.xcur, !.xcur = s.xblk, !.xblk = s.xcur,
                   !.fpre = s.fcur, !.fcur = s.fblk, !.fblk = s.fcur]
    ELSE s

BrentDelta(s) == FDivInt(FAdd(xtol, FMul(rtol, FAbs(s.xcur))), 2)

BrentSbis(s) == FDivInt(FSub(s.xblk, s.xcur), 2)

\* the step tried: secant interpolation, or inverse quadratic extrapolation
BrentTry(s) ==
    IF s.xpre = s.xblk
    THEN FDiv(FMul(FNeg(s.fcur), FSub(s.xcur, s.xpre)), FSub(s.fcur, s.fpre))
    ELSE LET dpre == FDiv(FSub(s.fpre, s.fcur), FSub(s.xpre, s.xcur))
             dblk == FDiv(FSub(s.fblk, s.fcur), FSub(s.xblk, s.xcur))
         IN  FDiv(FMul(FNeg(s.fcur),
                       FSub(FMul(s.fblk, dblk), FMul(s.fpre, dpre))),
                  FMul(FMul(dblk, dpre), FSub(s.fblk, s.fpre)))

FMin(x, y) == IF FLt(y, x) THEN y ELSE x

\* the step taken: the tried step when it is short enough, else bisection
BrentChoose(s, delta, sbis) ==
    IF FLt(delta, FAbs(s.spre)) /\ FLt(FAbs(s.fcur), FAbs(s.fpre))
    THEN LET stry == BrentTry(s)
         IN  IF FLt(FMulInt(FAbs(stry), 2),
                    FMin(FAbs(s.spre), FSub(FMulInt(FAbs(sbis), 3), delta)))
             THEN [s EXCEPT !.spre = s.scur, !.scur = stry]
             ELSE [s EXCEPT !.spre = sbis, !.scur = sbis]
    ELSE [s EXCEPT !.spre = sbis, !.scur = sbis]

\* the next estimate and its residual
BrentMove(f, args, s, delta, sbis) ==
    LET x == IF FLt(delta, FAbs(s.scur)) THEN FAdd(s.xcur, s.scur)
             ELSE FAdd(s.xcur, IF FLt(Zero, sbis) THEN delta ELSE FNeg(delta))
    IN  [s EXCEPT !.xpre = s.xcur, !.fpre = s.fcur,
                  !.xcur = x, !.fcur = Call(f, x, args),
                  !.funcalls = s.funcalls + 1,
                  !.points = Append(s.points, x)]

\* one pass of the for loop of brentq, or its end after maxiter passes
BrentPass(f, args, s) == Do("BrentPass", f, args, s, 0, 0)

BrentPassBody(f, args, s) ==
    IF s.iterations >= maxiter THEN [s EXCEPT !.flag = "convergence error"]
    ELSE LET s2    == BrentSwap(BrentBracket(
                          [s EXCEPT !.iterations = s.iterations + 1]))
             delta == BrentDelta(s2)
             sbis  == BrentSbis(s2)
         IN  IF IsZero(s2.fcur) \/ FLt(FAbs(sbis), delta)
             THEN [s2 EXCEPT !.flag = "converged"]
             ELSE BrentMove(f, args, BrentChoose(s2, delta, sbis), delta, sbis)

\* root_scalar that returns the last estimate whatever the outcome
root_scalarSilent(s) ==
    [raised |-> "none",
     sol |-> [converged |-> s.flag = "converged", flag |-> s.flag,
              function_calls |-> s.funcalls,
              iterations |-> s.iterations, root |-> s.xcur]]

\* what root_scalar does with the state s brentq ended in: ValueError on the
\* sign error, else a RootResults, whose converged field is False when
\* maxiter passes were not enough
root_scalar(s) ==
    IF s.flag = "sign error" THEN [raised |-> "ValueError"]
    ELSE [raised |-> "none",
          sol |-> [converged |-> s.flag = "converged", flag |-> s.flag,
                   function_calls |-> s.funcalls,
                   iterations |-> s.iterations, root |-> s.xcur]]


(***************************************************************************)
(* numpy.interp(x, xp, fp) with the default left and right values, and the *)
(* list slice [::-1].                                                      *)
(***************************************************************************)
\* the largest j with xp[j] <= x, 0 when there is none: the index numpy's
\* search returns when xp is non-decreasing
RECURSIVE SearchFrom(_, _, _)
SearchFrom(x, xp, j) ==
    IF j = 0 THEN 0
    ELSE IF FLe(xp[j], x) THEN j
    ELSE SearchFrom(x, xp, j - 1)

\* a lookup that returns the table entry to the left of x
interpLeft(x, xp, fp) ==
    LET j == SearchFrom(x, xp, Len(xp))
    IN  IF j = 0 THEN fp[1] ELSE fp[j]

\* a lookup that extends the first and the last segment beyond the table
interpExtend(x, xp, fp) ==
    LET n == Len(xp)
        j == MaxOf(1, MinOf(n - 1, SearchFrom(x, xp, n)))
        slope == FDiv(FSub(fp[j + 1], fp[j]), FSub(xp[j + 1], xp[j]))
    IN  FAdd(FMul(slope, FSub(x, xp[j])), fp[j])

interp(x, xp, fp) == Do("interp", x, xp, fp, 0, 0)

interpBody(x, xp, fp) ==
    LET n == Len(xp)
        j == SearchFrom(x, xp, n)
    IN  IF j = 0 THEN fp[1]
        ELSE IF FLt(xp[n], x) THEN fp[n]
        ELSE IF j = n THEN fp[j]
        ELSE IF xp[j] = x THEN fp[j]
        ELSE LET slope == FDiv(FSub(fp[j + 1], fp[j]), FSub(xp[j + 1], xp[j]))
             IN  FAdd(FMul(slope, FSub(x, xp[j])), fp[j])

\* lst[::-1]
Reverse(lst) == [i \in 1..Len(lst) |-> lst[Len(lst) + 1 - i]]

(***************************************************************************)
(* np.degrees, and the format specification .n: n significant digits.      *)
(***************************************************************************)
\* 180 / pi = 57.2957795130823209 to 16 fractional digits
Deg180OverPi == FAdd(Dec(57, 0), FAdd(Dec(29577951, 8), Dec(30823209, 16)))

Degrees(rad) == FMul(rad, Deg180OverPi)

\* 10^e for -16 <= e <= 9
Ten(e) == IF e >= 0 THEN FromInt(10 ^ e) ELSE Dec(1, -e)

\* the e with 10^(e-1) <= |x| < 10^e, searched downward; x # 0
RECURSIVE ExponentFrom(_, _)
ExponentFrom(x, e) ==
    IF e <= -15 \/ FLe(Ten(e - 1), FAbs(x)) THEN e ELSE ExponentFrom(x, e - 1)

\* x rounded half away from zero to d decimals, 0 <= d <= 16
RoundDec(x, d) ==
    LET unit == Ten(-d).mag
    IN  Mk(x.neg, NMul(NDiv(NAdd(x.mag, NDiv(unit, <<2>>)), unit), unit))

\* f'{x:.n}': x to n significant digits
Format(x, n) == Do("Format", x, n, 0, 0, 0)

FormatBody(x, n) == IF IsZero(x) THEN x ELSE RoundDec(x, n - ExponentFrom(x, 9))

(***************************************************************************)
(* Operations on the kernel.                                               *)
(***************************************************************************)
NoCall == [fn |-> "none"]

Kernel == [ns |-> ns, out |-> out, err |-> err, calls |-> calls, call |-> call]

Bound(k, names) == names \subseteq DOMAIN k.ns

Raise(k, e) == [k EXCEPT !.err = e]

\* name = val
Assign(k, name, val) ==
    [k EXCEPT !.ns = [n \in DOMAIN k.ns \cup {name} |->
                         IF n = name THEN val ELSE k.ns[n]]]

\* print(val), or the value of a cell's last expression
Show(k, cell, val) == [k EXCEPT !.out = Append(@, [cell |-> cell, value |-> val])]

Log(k, entry) == [k EXCEPT !.calls = Append(@, entry)]

\* optimize.root_scalar(f, args = args, bracket = bracket) is entered: brentq
\* has evaluated the ends of the bracket
Enter(k, cell, name, f, args, bracket) ==
    [k EXCEPT !.call = [fn |-> "root_scalar", cell |-> cell, name |-> name,
                        f |-> f, args |-> args, bracket |-> bracket,
                        s |-> BrentStart(f, args, bracket[1], bracket[2])]]

\* brentq is still in its loop
InLoop(c) == c.fn = "root_scalar" /\ c.s.flag = "inprogress"

\* brentq has ended
Ended(c) == c.fn = "root_scalar" /\ c.s.flag # "inprogress"

\* name = <the call's result>: the call returns and its result is bound, or
\* its exception stops the run
Return(k) ==
    LET c  == k.call
        r  == root_scalar(c.s)
        k1 == Log([k EXCEPT !.call = NoCall],
                  [fn |-> "root_scalar", cell |-> c.cell, f |-> c.f,
                   args |-> c.args, bracket |-> c.bracket,
                   points |-> c.s.points, raised |-> r.raised])
    IN  IF r.raised = "none" THEN Assign(k1, c.name, r.sol)
        ELSE Raise(k1, r.raised)

\* np.interp(x, xp, fp) as the last expression of a cell
Lookup(k, cell, x, xp, fp) ==
    Show(Log(k, [fn |-> "interp", cell |-> cell, x |-> x, xp |-> xp, fp |-> fp]),
         cell, interp(x, xp, fp))


(***************************************************************************)
(* The code cells of the area-Mach and interpolation notebook.             *)
(***************************************************************************)
\* import matplotlib.pyplot as plt; import numpy as np; from scipy import optimize
AreaCell1(k) == Do("AreaCell1", k, 0, 0, 0, 0)

AreaCell1Body(k) ==
    Assign(Assign(Assign(k, "plt", [module |-> "matplotlib.pyplot"]),
                  "np", [module |-> "numpy"]),
           "optimize", [module |-> "scipy.optimize"])

\* def fA(M2, M1, A_ratio, gamma)
AreaCell2(k) == Do("AreaCell2", k, 0, 0, 0, 0)

AreaCell2Body(k) == Assign(k, "fA", [def |-> "fA"])

\* M1, A_ratio, gamma = ...; optimize.root_scalar(fA, ...) is entered
AreaCell3(k, M1, A_ratio, gamma, bracket) == Do("AreaCell3", k, M1, A_ratio, gamma, bracket)

AreaCell3Body(k, M1, A_ratio, gamma, bracket) ==
    LET k1 == Assign(Assign(Assign(k, "M1", M1), "A_ratio", A_ratio),
                     "gamma", gamma)
    IN  IF Bound(k1, {"optimize", "fA", "M1", "A_ratio", "gamma"})
        THEN Enter(k1, 3, "root", k1.ns["fA"],
                   <<k1.ns["M1"], k1.ns["A_ratio"], k1.ns["gamma"]>>, bracket)
        ELSE Raise(k1, "NameError")

\* root = <the call's result>; print(root)
AreaCell3End(k) == Do("AreaCell3End", k, 0, 0, 0, 0)

AreaCell3EndBody(k) ==
    LET k1 == Return(k)
    IN  IF k1.err # "none" THEN k1
        ELSE IF Bound(k1, {"root"}) THEN Show(k1, 3, k1.ns["root"])
        ELSE Raise(k1, "NameError")

\* the table of the forward lookup: Mach numbers and p/pt
Machs == <<Dec(170, 2), Dec(171, 2), Dec(172, 2), Dec(173, 2), Dec(174, 2)>>

PRatios ==
    <<Dec(20259, 5), Dec(19956, 5), Dec(19656, 5), Dec(19361, 5), Dec(19070, 5)>>

\* machs = [...]; p_ratios = [...]; np.interp(x, machs, p_ratios)
AreaCell4(k, x) == Do("AreaCell4", k, x, 0, 0, 0)

AreaCell4Body(k, x) ==
    LET k1 == Assign(Assign(k, "machs", Machs), "p_ratios", PRatios)
    IN  IF Bound(k1, {"np", "machs", "p_ratios"})
        THEN Lookup(k1, 4, x, k1.ns["machs"], k1.ns["p_ratios"])
        ELSE Raise(k1, "NameError")

\* np.interp(x, p_ratio[::-1], M[::-1])
AreaCell5(k, x) == Do("AreaCell5", k, x, 0, 0, 0)

AreaCell5Body(k, x) ==
    IF Bound(k, {"np", "p_ratio", "M"})
    THEN Lookup(k, 5, x, Reverse(k.ns["p_ratio"]), Reverse(k.ns["M"]))
    ELSE Raise(k, "NameError")

(***************************************************************************)
(* The code cells of the oblique-shock notebook.                           *)
(***************************************************************************)
\* import numpy as np; from scipy import optimize
ObliqueCell1(k) == Do("ObliqueCell1", k, 0, 0, 0, 0)

ObliqueCell1Body(k) ==
    Assign(Assign(k, "np", [module |-> "numpy"]),
           "optimize", [module |-> "scipy.optimize"])

\* gamma, M1 = ...; theta = np.radians(...); delta = np.arctan(...); print
ObliqueCell2(k, gamma, M1, thetaDeg) == Do("ObliqueCell2", k, gamma, M1, thetaDeg, 0)

ObliqueCell2Body(k, gamma, M1, thetaDeg) ==
    LET k1 == Assign(Assign(k, "gamma", gamma), "M1", M1)
    IN  IF ~Bound(k1, {"np"}) THEN Raise(k1, "NameError")
        ELSE LET k2 == Assign(k1, "theta", Radians(thetaDeg))
                 k3 == Assign(k2, "delta",
                              Arctan(TanDeflection(k2.ns["theta"], k2.ns["M1"],
                                                   k2.ns["gamma"])))
             IN  Show(k3, 2, Format(Degrees(k3.ns["delta"]), 3))

\* M1n = M1 * np.sin(theta); M2n = np.sqrt(...); M2 = M2n / np.sin(theta - delta)
ObliqueCell3(k) == Do("ObliqueCell3", k, 0, 0, 0, 0)

ObliqueCell3Body(k) ==
    IF ~Bound(k, {"M1", "np", "theta", "gamma", "delta"})
    THEN Raise(k, "NameError")
    ELSE LET g  == k.ns["gamma"]
             k1 == Assign(k, "M1n", FMul(k.ns["M1"], Sin(k.ns["theta"])))
             n2 == FPowInt(k1.ns["M1n"], 2)
             k2 == Assign(k1, "M2n",
                     FSqrt(FDiv(FAdd(n2, FDiv(Two, FSub(g, One))),
                                FSub(FDiv(FMul(n2, FMul(Two, g)), FSub(g, One)),
                                     One))))
             k3 == Assign(k2, "M2",
                     FDiv(k2.ns["M2n"],
                          Sin(FSub(k2.ns["theta"], k2.ns["delta"]))))
         IN  Show(k3, 3, Format(k3.ns["M2"], 3))

\* the bracket of the weak-shock solve, in degrees
WeakLo == Dec(1, 4)

WeakHi == FromInt(45)

\* def oblique(...); optimize.root_scalar(oblique, ...) is entered
ObliqueCell4(k) == Do("ObliqueCell4", k, 0, 0, 0, 0)

ObliqueCell4Body(k) ==
    LET k1 == Assign(k, "oblique", [def |-> "oblique"])
    IN  IF Bound(k1, {"optimize", "oblique", "M2", "delta", "gamma", "np"})
        THEN Enter(k1, 4, "root", k1.ns["oblique"],
                   <<k1.ns["M2"], k1.ns["delta"], k1.ns["gamma"]>>,
                   <<Radians(WeakLo), Radians(WeakHi)>>)
        ELSE Raise(k1, "NameError")

\* root = <the call's result>; theta_2 = root.root; print
ObliqueCell4End(k) == Do("ObliqueCell4End", k, 0, 0, 0, 0)

ObliqueCell4EndBody(k) ==
    LET k1 == Return(k)
    IN  IF k1.err # "none" THEN k1
        ELSE IF ~Bound(k1, {"root", "np"}) THEN Raise(k1, "NameError")
        ELSE LET k2 == Assign(k1, "theta_2", k1.ns["root"].root)
             IN  Show(k2, 4, Format(Degrees(k2.ns["theta_2"]), 3))

\* beta = theta_2 + delta; print
ObliqueCell5Sum(k) ==
    IF ~Bound(k, {"theta_2", "delta", "np"}) THEN Raise(k, "NameError")
    ELSE LET k1 == Assign(k, "beta", FAdd(k.ns["theta_2"], k.ns["delta"]))
         IN  Show(k1, 5, Format(Degrees(k1.ns["beta"]), 3))

\* beta = theta_2 - delta; print
ObliqueCell5(k) == Do("ObliqueCell5", k, 0, 0, 0, 0)

ObliqueCell5Body(k) ==
    IF ~Bound(k, {"theta_2", "delta", "np"}) THEN Raise(k, "NameError")
    ELSE LET k1 == Assign(k, "beta", FSub(k.ns["theta_2"], k.ns["delta"]))
         IN  Show(k1, 5, Format(Degrees(k1.ns["beta"]), 3))

\* print(M1n); M3n = M2 * np.sin(theta_2); print(M3n)
ObliqueCell6(k) == Do("ObliqueCell6", k, 0, 0, 0, 0)

ObliqueCell6Body(k) ==
    IF ~Bound(k, {"M1n"}) THEN Raise(k, "NameError")
    ELSE LET k1 == Show(k, 6, Format(k.ns["M1n"], 4))
         IN  IF ~Bound(k1, {"M2", "np", "theta_2"}) THEN Raise(k1, "NameError")
             ELSE LET k2 == Assign(k1, "M3n",
                                   FMul(k1.ns["M2"], Sin(k1.ns["theta_2"])))
                  IN  Show(k2, 6, Format(k2.ns["M3n"], 4))


\* the operation named op applied to the first of the arguments a .. e
Do(op, a, b, c, d, e) ==
    CASE op = "NMul" -> NMulBody(a, b)
      [] op = "NDiv" -> NDivBody(a, b)
      [] op = "FAdd" -> FAddBody(a, b)
      [] op = "FMul" -> FMulBody(a, b)
      [] op = "FDiv" -> FDivBody(a, b)
      [] op = "FSqrt" -> FSqrtBody(a)
      [] op = "FPowInt" -> FPowIntBody(a, b)
      [] op = "FPow" -> FPowBody(a, b)
      [] op = "Arctan" -> ArctanBody(a)
      [] op = "Call" -> CallBody(a, b, c)
      [] op = "BrentPass" -> BrentPassBody(a, b, c)
      [] op = "interp" -> interpBody(a, b, c)
      [] op = "Format" -> FormatBody(a, b)
      [] op = "AreaCell1" -> AreaCell1Body(a)
      [] op = "AreaCell2" -> AreaCell2Body(a)
      [] op = "AreaCell3" -> AreaCell3Body(a, b, c, d, e)
      [] op = "AreaCell3End" -> AreaCell3EndBody(a)
      [] op = "AreaCell4" -> AreaCell4Body(a, b)
      [] op = "AreaCell5" -> AreaCell5Body(a, b)
      [] op = "ObliqueCell1" -> ObliqueCell1Body(a)
      [] op = "ObliqueCell2" -> ObliqueCell2Body(a, b, c, d)
      [] op = "ObliqueCell3" -> ObliqueCell3Body(a)
      [] op = "ObliqueCell4" -> ObliqueCell4Body(a)
      [] op = "ObliqueCell4End" -> ObliqueCell4EndBody(a)
      [] op = "ObliqueCell5" -> ObliqueCell5Body(a)
      [] op = "ObliqueCell6" -> ObliqueCell6Body(a)

(***************************************************************************)
(* The values the cells' literals are drawn from.  Each set holds the      *)
(* notebook's own literal (M1 = 0.5, A_ratio = 5/2, gamma = 1.4, bracket   *)
(* [1.0001, 10.0], query 1.715; M1 = 2.2, theta = 35 degrees) and          *)
(* neighbours of it for which every operation of the cells is defined.     *)
(***************************************************************************)
MaxM1Halves == 2

MaxAreaHalves == 5

MaxQuerySteps == 11

MaxMachElevenths == 3

MaxThetaFives == 9

AreaMachs == {Dec(5 * i, 1) : i \in 1..MaxM1Halves}

AreaRatios == {Dec(5 * i, 1) : i \in 1..MaxAreaHalves}

Gammas == {Dec(14, 1), Dec(125, 2)}

Supersonic == <<Dec(10001, 4), FromInt(10)>>

Subsonic == <<Dec(1, 1), Dec(9999, 4)>>

Brackets == {Supersonic, Subsonic}

Queries == {Dec(1690 + 5 * i, 3) : i \in 0..MaxQuerySteps}

ReverseQuery == Dec(198, 3)

ObliqueMachs == {Dec(11 * i, 1) : i \in 2..MaxMachElevenths}

ThetaDegs == {FromInt(5 * i) : i \in 7..MaxThetaFives}

(***************************************************************************)
(* Running a notebook: a fresh kernel, then the code cells once each, top  *)
(* to bottom; the run stops at the first cell that raises.  A cell that    *)
(* calls root_scalar is left only when the call has returned: each pass of *)
(* the solver's loop is a step, and no other step is enabled meanwhile.    *)
(***************************************************************************)
Init ==
    /\ nb \in {"area", "oblique"}
    /\ pc = 1
    /\ ns = [n \in {} |-> Zero]
    /\ out = <<>>
    /\ err = "none"
    /\ calls = <<>>
    /\ call = NoCall

\* the kernel becomes k; the cell is left unless it is inside a call
Ran(k) ==
    /\ ns' = k.ns
    /\ out' = k.out
    /\ err' = k.err
    /\ calls' = k.calls
    /\ call' = k.call
    /\ pc' = IF k.call = NoCall THEN pc + 1 ELSE pc
    /\ nb' = nb

Ready(notebook, cell) ==
    nb = notebook /\ pc = cell /\ err = "none" /\ call = NoCall

RunAreaCell1 == Ready("area", 1) /\ Ran(AreaCell1(Kernel))

RunAreaCell2 == Ready("area", 2) /\ Ran(AreaCell2(Kernel))

RunAreaCell3 ==
    /\ Ready("area", 3)
    /\ \E M1 \in AreaMachs, A_ratio \in AreaRatios, gamma \in Gammas,
          bracket \in Brackets :
            Ran(AreaCell3(Kernel, M1, A_ratio, gamma, bracket))

\* the names of the parameters of a function object, the unknown first
Params(f) ==
    IF f.def = "fA" THEN <<"M2", "M1", "A_ratio", "gamma">>
    ELSE <<"theta", "M1", "delta", "gamma">>

\* one pass of the loop in which the residual function binds its parameters
\* in the kernel's namespace instead of in a frame of its own
IterateGlobals ==
    /\ InLoop(call)
    /\ call' = [call EXCEPT !.s = BrentPass(call.f, call.args, call.s)]
    /\ LET names  == Params(call.f)
           values == <<call.s.xcur>> \o call.args
       IN  ns' = [n \in DOMAIN ns \cup {names[i] : i \in DOMAIN names} |->
                     IF \E i \in DOMAIN names : names[i] = n
                     THEN values[CHOOSE i \in DOMAIN names : names[i] = n]
                     ELSE ns[n]]
    /\ UNCHANGED <<nb, pc, out, err, calls>>

\* one pass of the loop of the brentq call in progress
Iterate ==
    /\ InLoop(call)
    /\ call' = [call EXCEPT !.s = BrentPass(call.f, call.args, call.s)]
    /\ UNCHANGED <<nb, pc, ns, out, err, calls>>

EndAreaCell3 ==
    /\ nb = "area" /\ pc = 3 /\ Ended(call)
    /\ Ran(AreaCell3End(Kernel))

RunAreaCell4 ==
    /\ Ready("area", 4)
    /\ \E x \in Queries : Ran(AreaCell4(Kernel, x))

RunAreaCell5 == Ready("area", 5) /\ Ran(AreaCell5(Kernel, ReverseQuery))

RunObliqueCell1 == Ready("oblique", 1) /\ Ran(ObliqueCell1(Kernel))

RunObliqueCell2 ==
    /\ Ready("oblique", 2)
    /\ \E gamma \in Gammas, M1 \in ObliqueMachs, thetaDeg \in ThetaDegs :
            Ran(ObliqueCell2(Kernel, gamma, M1, thetaDeg))

RunObliqueCell3 == Ready("oblique", 3) /\ Ran(ObliqueCell3(Kernel))

RunObliqueCell4 == Ready("oblique", 4) /\ Ran(ObliqueCell4(Kernel))

EndObliqueCell4 ==
    /\ nb = "oblique" /\ pc = 4 /\ Ended(call)
    /\ Ran(ObliqueCell4End(Kernel))

RunObliqueCell5 == Ready("oblique", 5) /\ Ran(ObliqueCell5(Kernel))

RunObliqueCell6 == Ready("oblique", 6) /\ Ran(ObliqueCell6(Kernel))

Next ==
    \/ RunAreaCell1
    \/ RunAreaCell2
    \/ RunAreaCell3
    \/ Iterate
    \/ EndAreaCell3
    \/ RunAreaCell4
    \/ RunAreaCell5
    \/ RunObliqueCell1
    \/ RunObliqueCell2
    \/ RunObliqueCell3
    \/ RunObliqueCell4
    \/ EndObliqueCell4
    \/ RunObliqueCell5
    \/ RunObliqueCell6

Spec == Init /\ [][Next]_vars

(***************************************************************************)
(* The properties of the two notebooks.                                    *)
(***************************************************************************)
\* the tolerance on a residual at a solved root
Tolerance == Dec(1, 6)

\* the call of root_scalar has returned; each notebook makes one, and it is
\* the first library call it makes
Returned == Len(calls) > 0 /\ calls[1].fn = "root_scalar"

Within(x, bracket) == FLe(bracket[1], x) /\ FLe(x, bracket[2])

Between(y, a, b) == (FLe(a, y) /\ FLe(y, b)) \/ (FLe(b, y) /\ FLe(y, a))

\* the residual of the call c is non-zero and of one sign at both ends of
\* the bracket
NoSignChange(c) ==
    LET fa == Call(c.f, c.bracket[1], c.args)
        fb == Call(c.f, c.bracket[2], c.args)
    IN  ~IsZero(fa) /\ ~IsZero(fb) /\ SameSign(fa, fb)

\* the values a cell has shown
ShownBy(cell) == {out[i].value : i \in {j \in DOMAIN out : out[j].cell = cell}}

Shown(cell) == CHOOSE v \in ShownBy(cell) : TRUE

Ascending(xp) == \A i \in 1..(Len(xp) - 1) : FLe(xp[i], xp[i + 1])

\* the literals of the area-Mach solve cell
AreaLiteral ==
    /\ ns["M1"] = Dec(5, 1) /\ ns["A_ratio"] = Dec(25, 1)
    /\ ns["gamma"] = Dec(14, 1) /\ calls[1].bracket = Supersonic

\* the literals of the oblique-shock notebook
ObliqueLiteral ==
    /\ ns["M1"] = Dec(22, 1) /\ ns["gamma"] = Dec(14, 1)
    /\ ns["theta"] = Radians(FromInt(35))

\* C1: when the area-Mach solve is given a supersonic bracket at whose ends
\* the residual changes sign, root_scalar returns a converged result whose
\* root, put back into fA with the knowns, leaves a residual within 1e-6 of
\* zero; for M1 = 0.5, A_ratio = 2.5, gamma = 1.4 the root is 2.7538 to five
\* digits.
C1_AreaMachResidual ==
    (/\ nb = "area" /\ Returned
     /\ calls[1].bracket = Supersonic /\ ~NoSignChange(calls[1])) =>
        /\ calls[1].raised = "none"
        /\ Bound(Kernel, {"root"})
        /\ ns["root"].converged
        /\ FLe(FAbs(fA(ns["root"].root, ns["M1"], ns["A_ratio"], ns["gamma"])),
               Tolerance)
        /\ AreaLiteral => Format(ns["root"].root, 5) = Dec(27538, 4)

C1_Witness ==
    /\ nb = "area" /\ Returned /\ ~NoSignChange(calls[1])
    /\ Bound(Kernel, {"root"}) /\ AreaLiteral
    /\ ns["root"].converged
    /\ Format(ns["root"].root, 5) = Dec(27538, 4)

C3_ForwardInterpolation ==
    \A c \in DOMAIN calls :
        (/\ calls[c].fn = "interp"
         /\ Len(calls[c].xp) = Len(calls[c].fp) /\ Ascending(calls[c].xp)) =>
            LET x  == calls[c].x
                xp == calls[c].xp
                fp == calls[c].fp
                y  == Shown(calls[c].cell)
            IN  /\ \A i \in 1..(Len(xp) - 1) :
                      (FLe(xp[i], x) /\ FLe(x, xp[i + 1])) =>
                          /\ y = FAdd(fp[i],
                                      FDiv(FMul(FSub(x, xp[i]),
                                                FSub(fp[i + 1], fp[i])),
                                           FSub(xp[i + 1], xp[i])))
                          /\ Between(y, fp[i], fp[i + 1])
                          /\ x = xp[i] => y = fp[i]
                /\ (x = Dec(1715, 3) /\ xp = Machs /\ fp = PRatios) =>
                      Format(y, 6) = Dec(198060, 6)

C3_Witness ==
    /\ nb = "area" /\ pc > 4 /\ Len(calls) = 2
    /\ calls[2].fn = "interp" /\ calls[2].x = Dec(1715, 3)
    /\ calls[2].xp = Machs /\ calls[2].fp = PRatios
    /\ Shown(4) = Dec(198060, 6)

\* C4: once the forward-lookup cell has run, the reverse-lookup cell shows
\* the Mach number at p/pt = 0.198 in the reversed table, 1.7152 to five
\* digits and not 1.715.
C4_ReverseLookup ==
    (nb = "area" /\ pc > 5 /\ Bound(Kernel, {"machs", "p_ratios"})) =>
        /\ ShownBy(5) # {}
        /\ Format(Shown(5), 5) = Dec(17152, 4)
        /\ Shown(5) # Dec(1715, 3)

\* C5: every lookup is called with a non-decreasing axis; the forward lookup
\* passes machs, and the reverse lookup passes the reversed p/pt list with
\* the reversed Mach list, every pair of the table still at one index.
C5_AscendingAxis ==
    /\ \A c \in DOMAIN calls :
          calls[c].fn = "interp" =>
              Ascending(calls[c].xp) /\ Len(calls[c].xp) = Len(calls[c].fp)
    /\ (nb = "area" /\ pc > 4) =>
          \E c \in DOMAIN calls :
              /\ calls[c].fn = "interp" /\ calls[c].cell = 4
              /\ calls[c].xp = ns["machs"]
    /\ (nb = "area" /\ pc > 5) =>
          \E c \in DOMAIN calls :
              /\ calls[c].fn = "interp" /\ calls[c].cell = 5
              /\ calls[c].xp = Reverse(ns["p_ratios"])
              /\ \A i \in DOMAIN ns["machs"] :
                    \E j \in DOMAIN calls[c].xp :
                        /\ calls[c].xp[j] = ns["p_ratios"][i]
                        /\ calls[c].fp[j] = ns["machs"][i]

\* C6: a lookup with a query below the first value of the axis shows the
\* first value of the other list, one with a query above the last value shows
\* the last, and the lookup cell raises nothing.
C6_Clamping ==
    \A c \in DOMAIN calls :
        calls[c].fn = "interp" =>
            LET x  == calls[c].x
                xp == calls[c].xp
                fp == calls[c].fp
            IN  /\ FLt(x, xp[1]) => Shown(calls[c].cell) = fp[1]
                /\ FLt(xp[Len(xp)], x) => Shown(calls[c].cell) = fp[Len(fp)]
                /\ pc = calls[c].cell + 1 => err = "none"

C6_Witness ==
    /\ nb = "area" /\ pc = 5 /\ Len(calls) = 2 /\ err = "none"
    /\ calls[2].fn = "interp" /\ FLt(Dec(174, 2), calls[2].x)
    /\ calls[2].xp = Machs /\ calls[2].fp = PRatios
    /\ Shown(4) = Dec(19070, 5)

\* C7: every estimate of a bracketed solve, and the root of one that has
\* converged, lies inside the bracket passed; the area-Mach solve with the
\* supersonic bracket returns a root above 1, and the oblique-shock solve,
\* called with (M2, delta, gamma) and the bracket from 0.0001 to 45 degrees,
\* a theta_2 of at most 45 degrees, shown as 41.7 for the notebook's literals.
C7_BracketSelectsBranch ==
    /\ call # NoCall =>
          \A i \in DOMAIN call.s.points : Within(call.s.points[i], call.bracket)
    /\ Returned =>
          \A i \in DOMAIN calls[1].points :
              Within(calls[1].points[i], calls[1].bracket)
    /\ (Returned /\ "root" \in DOMAIN ns /\ ns["root"].converged) =>
          /\ Within(ns["root"].root, calls[1].bracket)
          /\ (nb = "area" /\ calls[1].bracket = Supersonic) =>
                FLt(One, ns["root"].root)
          /\ (nb = "oblique" /\ pc > 4) =>
                /\ calls[1].args = <<ns["M2"], ns["delta"], ns["gamma"]>>
                /\ calls[1].bracket =
                       <<Radians(Dec(1, 4)), Radians(FromInt(45))>>
                /\ ns["theta_2"] = ns["root"].root
                /\ FLe(ns["theta_2"], Radians(FromInt(45)))
                /\ ObliqueLiteral => Shown(4) = Dec(417, 1)

C7_Witness ==
    /\ nb = "oblique" /\ Returned /\ Bound(Kernel, {"root", "theta_2"})
    /\ ObliqueLiteral /\ ns["root"].converged
    /\ Len(calls[1].points) > 3
    /\ Shown(4) = Dec(417, 1)

\* C8: at the end of the oblique-shock notebook run with M1 = 2.2,
\* theta = 35 degrees, gamma = 1.4, M3n = M2*sin(theta_2), shown as 1.233, is
\* below M1n = M1*sin(theta), shown as 1.262, and beta = theta_2 - delta,
\* shown as 32.5 degrees, is below theta.
C8_ReflectedWeaker ==
    (nb = "oblique" /\ Bound(Kernel, {"M3n"}) /\ ObliqueLiteral) =>
        /\ ns["M1n"] = FMul(ns["M1"], Sin(ns["theta"]))
        /\ ns["M3n"] = FMul(ns["M2"], Sin(ns["theta_2"]))
        /\ FLt(ns["M3n"], ns["M1n"])
        /\ ShownBy(6) = {Dec(1262, 3), Dec(1233, 3)}
        /\ ns["beta"] = FSub(ns["theta_2"], ns["delta"])
        /\ FLt(ns["beta"], ns["theta"])
        /\ Shown(5) = Dec(325, 1)

C8_Witness ==
    /\ nb = "oblique" /\ pc > 6 /\ err = "none"
    /\ Bound(Kernel, {"M3n", "beta"}) /\ ObliqueLiteral
    /\ FLt(ns["M3n"], ns["M1n"])
    /\ FLt(ns["beta"], ns["theta"])

\* the names of the knowns of the two solves
Knowns == {"M1", "A_ratio", "theta", "delta", "gamma"}

\* C9: no step of a solve, each of which evaluates the residual function,
\* changes a known bound in the kernel's namespace, and the residual function
\* evaluated at the root of a converged solve, with the arguments of the
\* call, is within 1e-6 of zero.
C9_ResidualsPure ==
    [][(call # NoCall \/ call' # NoCall) =>
          /\ \A n \in Knowns \cap DOMAIN ns :
                n \in DOMAIN ns' /\ ns'[n] = ns[n]
          /\ (call' = NoCall /\ err' = "none" /\ ns'["root"].converged) =>
                FLe(FAbs(Call(call.f, ns'["root"].root, call.args)), Tolerance)
      ]_vars

C9_Witness ==
    /\ nb = "oblique" /\ Returned /\ Bound(Kernel, {"root"})
    /\ ns["root"].converged /\ ns["root"].iterations > 2
    /\ calls[1].f = [def |-> "oblique"]
    /\ ns["theta"] = Radians(FromInt(35))
    /\ ns["root"].root # ns["theta"]

\* C10: when the code cells of a notebook are run once each, top to bottom,
\* in a fresh kernel, no cell stops on a name that is not bound.
C10_DefineBeforeUse == err # "NameError"

=============================================================================
